---- MODULE Spec2Model ----
(***************************************************************************)
(* StoreRouterConnectingModule (router-store): the bridge that keeps the   *)
(* store's 'routerReducer' slot and the router's URL in agreement.         *)
(*                                                                         *)
(* The bridge's three callbacks (the beforePreactivation hook, the store   *)
(* subscriber and the router-events subscriber) are operators over a       *)
(* record `b` that holds the bridge's fields together with the parts of    *)
(* the store and of the router a callback can change.  Each action of the  *)
(* state machine is one whole callback, run synchronously to its end,      *)
(* the nested store emission and store subscriber included.                *)
(***************************************************************************)
EXTENDS Integers, Sequences, FiniteSets, TLC

\* ---- bounds of the model ----
\* highest navigation id the router hands out
MaxNav == 3
\* longest queue of scheduled, not yet started navigations
MaxQueue == 1

\* ---- values ----
\* JavaScript's undefined
Undefined == [undefined |-> TRUE]

\* `!x` for the values the bridge tests
Falsy(x) == x = Undefined

\* raw URLs a navigation can be requested for; "/r" is a redirecting route
Urls == {"/a", "/b", "/r"}

\* the URL the router ends on for a raw URL (urlAfterRedirects)
Redirect(u) == IF u = "/r" THEN "/a" ELSE u

\* URLs a router-state snapshot can hold
CanonUrls == {Redirect(u) : u \in Urls}

\* router.url before the first navigation of the model
InitialUrl == "/a"

\* the outcomes of one store.dispatch call
Modes == {"ok", "reducerThrows", "subscriberThrows"}

ROUTER_NAVIGATION == "ROUTER_NAVIGATION"

ROUTER_CANCEL == "ROUTER_CANCEL"

ROUTER_ERROR == "ROUTE_ERROR"

VARIABLES
  \* the bridge's fields
  routerState, storeState, lastRoutesRecognized,
  dispatchTriggeredByRouter, navigationTriggeredByDispatch,
  \* the store: its current state
  state,
  \* the router: router.url, the scheduled navigations, the id counter and
  \* the navigation in flight
  url, navigations, navigationId, current,
  \* history: what the last callback did, and the slot change by the host
  \* that the router has not caught up with yet
  last, pending

vars == <<routerState, storeState, lastRoutesRecognized,
          dispatchTriggeredByRouter, navigationTriggeredByDispatch,
          state, url, navigations, navigationId, current, last, pending>>

\* ---- the store ----

\* the snapshot the router builds for a navigation
Snapshot(nav) == [url |-> Redirect(nav.url), nav |-> nav.id]

\* RouterStateSerializer.serialize of the default serializer
serialize(s) == s

\* routerReducer with a switch that has no default branch
routerReducer_NoDefault(slot, action) ==
  IF action.type \in {ROUTER_NAVIGATION, ROUTER_ERROR, ROUTER_CANCEL}
  THEN [state |-> action.payload.routerState,
        navigationId |-> action.payload.event.id]
  ELSE Undefined

routerReducer(slot, action) ==
  IF action.type \in {ROUTER_NAVIGATION, ROUTER_ERROR, ROUTER_CANCEL}
  THEN [state |-> action.payload.routerState,
        navigationId |-> action.payload.event.id]
  ELSE slot

\* the host's root reducer: routerReducer on the slot, and the host's own
\* actions (a change outside the slot, a restored slot URL, a reset)
rootReducer(s, action) ==
  CASE action.type = "HOST_TOUCH" ->
         [s EXCEPT !.rest = ~@,
                   !.routerReducer = routerReducer(@, action)]
    [] action.type = "HOST_SET_URL" ->
         [s EXCEPT !.routerReducer =
            [state |-> [url |-> action.url, nav |-> 0],
             navigationId |-> IF Falsy(@) THEN 0 ELSE @.navigationId]]
    [] action.type = "HOST_RESET" ->
         [routerReducer |-> Undefined, rest |-> FALSE]
    [] OTHER ->
         [s EXCEPT !.routerReducer = routerReducer(@, action)]

\* ---- the router, as far as a bridge callback reaches it ----

\* Router.scheduleNavigation: the next id, queued behind the others
scheduleNavigation(b, u, origin) ==
  [b EXCEPT !.navigationId = @ + 1,
            !.navigations = Append(@, [id |-> b.navigationId + 1,
                                       url |-> u, origin |-> origin])]

\* router.navigateByUrl as the bridge calls it
navigateByUrl(b, u) ==
  [scheduleNavigation(b, u, "store") EXCEPT !.calls = Append(@, u)]

\* ---- the bridge ----

\* shouldDispatchRouterNavigation without its test of the slot
shouldDispatchRouterNavigation_FlagOnly(b) ==
  ~b.navigationTriggeredByDispatch

shouldDispatchRouterNavigation(b) ==
  IF Falsy(b.storeState.routerReducer) THEN TRUE
  ELSE ~b.navigationTriggeredByDispatch

\* navigateIfNeeded without its dispatchTriggeredByRouter test
navigateIfNeeded_NoDispatchGuard(b) ==
  IF Falsy(b.storeState.routerReducer)
     \/ Falsy(b.storeState.routerReducer.state)
  THEN b
  ELSE IF url # b.storeState.routerReducer.state.url
  THEN navigateByUrl([b EXCEPT !.navigationTriggeredByDispatch = TRUE],
                     b.storeState.routerReducer.state.url)
  ELSE b

\* navigateIfNeeded setting its guard before it compares the URLs
navigateIfNeeded_FlagFirst(b) ==
  IF Falsy(b.storeState.routerReducer)
     \/ Falsy(b.storeState.routerReducer.state)
  THEN b
  ELSE IF b.dispatchTriggeredByRouter THEN b
  ELSE LET b1 == [b EXCEPT !.navigationTriggeredByDispatch = TRUE]
       IN  IF url # b.storeState.routerReducer.state.url
           THEN navigateByUrl(b1, b.storeState.routerReducer.state.url)
           ELSE b1

navigateIfNeeded(b) ==
  IF Falsy(b.storeState.routerReducer)
     \/ Falsy(b.storeState.routerReducer.state)
  THEN b
  ELSE IF b.dispatchTriggeredByRouter THEN b
  ELSE IF url # b.storeState.routerReducer.state.url
  THEN navigateByUrl([b EXCEPT !.navigationTriggeredByDispatch = TRUE],
                     b.storeState.routerReducer.state.url)
  ELSE b

\* the store listener ignoring the states the bridge's own dispatch emits
storeListener_SkipOwnEmission(b, s) ==
  IF b.dispatchTriggeredByRouter THEN b
  ELSE navigateIfNeeded([b EXCEPT !.storeState = s])

\* the callback given to store.subscribe
storeListener(b, s) == navigateIfNeeded([b EXCEPT !.storeState = s])

\* store.dispatch: the reducer, then the emission to the subscribers
storeDispatch(b, action, mode) ==
  IF mode = "reducerThrows" THEN [b EXCEPT !.threw = TRUE]
  ELSE LET s == rootReducer(b.state, action)
           b1 == storeListener([b EXCEPT !.state = s], s)
       IN  [b1 EXCEPT !.threw = (mode = "subscriberThrows")]

\* dispatchRouterAction with the cleanup after the dispatch instead of in
\* a finally block
dispatchRouterAction_NoFinally(b, type, payload, mode) ==
  LET action == [type |-> type, payload |-> payload]
      b1 == [b EXCEPT !.dispatchTriggeredByRouter = TRUE,
                      !.action = action]
      b2 == storeDispatch(b1, action, mode)
  IN  IF b2.threw THEN b2
      ELSE [b2 EXCEPT !.dispatchTriggeredByRouter = FALSE,
                      !.navigationTriggeredByDispatch = FALSE]

dispatchRouterAction(b, type, payload, mode) ==
  LET action == [type |-> type, payload |-> payload]
      b1 == [b EXCEPT !.dispatchTriggeredByRouter = TRUE,
                      !.action = action]
      b2 == storeDispatch(b1, action, mode)
  IN  [b2 EXCEPT !.dispatchTriggeredByRouter = FALSE,
                 !.navigationTriggeredByDispatch = FALSE]

dispatchRouterNavigation(b, mode) ==
  dispatchRouterAction(b, ROUTER_NAVIGATION,
    [routerState |-> b.routerState,
     event |-> [id |-> b.lastRoutesRecognized.id,
                url |-> b.lastRoutesRecognized.url,
                urlAfterRedirects |-> b.lastRoutesRecognized.urlAfterRedirects,
                state |-> serialize(b.routerState)]],
    mode)

dispatchRouterCancel(b, event, mode) ==
  dispatchRouterAction(b, ROUTER_CANCEL,
    [routerState |-> b.routerState, storeState |-> b.storeState,
     event |-> event],
    mode)

dispatchRouterError(b, event, mode) ==
  dispatchRouterAction(b, ROUTER_ERROR,
    [routerState |-> b.routerState, storeState |-> b.storeState,
     event |-> event],
    mode)

\* the hook clearing navigationTriggeredByDispatch itself when it suppresses
\* the dispatch
beforePreactivation_ClearsGuard(b, snapshot, mode) ==
  LET b1 == [b EXCEPT !.routerState = serialize(snapshot)]
  IN  IF shouldDispatchRouterNavigation(b1)
      THEN dispatchRouterNavigation(b1, mode)
      ELSE [b1 EXCEPT !.navigationTriggeredByDispatch = FALSE]

\* the hook storing the snapshot only on the path that dispatches
beforePreactivation_StoreOnDispatch(b, snapshot, mode) ==
  IF shouldDispatchRouterNavigation(b)
  THEN dispatchRouterNavigation(
         [b EXCEPT !.routerState = serialize(snapshot)], mode)
  ELSE b

\* the hook dispatching before it stores the snapshot
beforePreactivation_DispatchFirst(b, snapshot, mode) ==
  LET b1 == IF shouldDispatchRouterNavigation(b)
            THEN dispatchRouterNavigation(b, mode)
            ELSE b
  IN  [b1 EXCEPT !.routerState = serialize(snapshot)]

\* the hook installed as router.hooks.beforePreactivation
beforePreactivation(b, snapshot, mode) ==
  LET b1 == [b EXCEPT !.routerState = serialize(snapshot)]
  IN  IF shouldDispatchRouterNavigation(b1)
      THEN dispatchRouterNavigation(b1, mode)
      ELSE b1

\* the hook returning of(true) only on the path that dispatched
hookReturn_ProceedOnDispatchOnly(b) ==
  IF b.threw THEN "throws"
  ELSE IF b.action = Undefined THEN "of(false)" ELSE "of(true)"

\* what the hook hands back to the router: of(true), unless the exception
\* of store.dispatch leaves the hook first
hookReturn(b) == IF b.threw THEN "throws" ELSE "of(true)"

\* routerEvents dispatching ROUTER_NAVIGATION on RoutesRecognized as well
routerEvents_DispatchOnRecognized(b, e, mode) ==
  CASE e.kind = "RoutesRecognized" ->
         dispatchRouterNavigation(
           [b EXCEPT !.lastRoutesRecognized =
              [id |-> e.id, url |-> e.url,
               urlAfterRedirects |-> e.urlAfterRedirects]], mode)
    [] e.kind = "NavigationCancel" -> dispatchRouterCancel(b, e, mode)
    [] e.kind = "NavigationError" -> dispatchRouterError(b, e, mode)
    [] OTHER -> b

\* the callback given to router.events.subscribe
routerEvents(b, e, mode) ==
  CASE e.kind = "RoutesRecognized" ->
         [b EXCEPT !.lastRoutesRecognized =
            [id |-> e.id, url |-> e.url,
             urlAfterRedirects |-> e.urlAfterRedirects]]
    [] e.kind = "NavigationCancel" -> dispatchRouterCancel(b, e, mode)
    [] e.kind = "NavigationError" -> dispatchRouterError(b, e, mode)
    [] OTHER -> b

\* ---- the state machine ----

\* the record a callback starts from
Self ==
  [routerState |-> routerState, storeState |-> storeState,
   lastRoutesRecognized |-> lastRoutesRecognized,
   dispatchTriggeredByRouter |-> dispatchTriggeredByRouter,
   navigationTriggeredByDispatch |-> navigationTriggeredByDispatch,
   state |-> state, navigations |-> navigations,
   navigationId |-> navigationId,
   calls |-> <<>>, action |-> Undefined, threw |-> FALSE]

\* the model's bounds, as a guard on what a callback leaves behind
InBounds(b) ==
  /\ b.navigationId <= MaxNav
  /\ Len(b.navigations) <= MaxQueue

\* the navigation in flight after a callback: `sent` lists the types of the
\* actions the bridge dispatched while it was in flight
NavAfter(b) ==
  IF current = Undefined \/ b.action = Undefined THEN current
  ELSE [current EXCEPT !.sent = Append(@, b.action.type)]

\* how often the bridge called navigateByUrl(u) in a callback
Count(calls, u) == Cardinality({i \in DOMAIN calls : calls[i] = u})

\* the state a callback `op` leaves behind
Becomes(b, op) ==
  /\ InBounds(b)
  /\ routerState' = b.routerState
  /\ storeState' = b.storeState
  /\ lastRoutesRecognized' = b.lastRoutesRecognized
  /\ dispatchTriggeredByRouter' = b.dispatchTriggeredByRouter
  /\ navigationTriggeredByDispatch' = b.navigationTriggeredByDispatch
  /\ state' = b.state
  /\ navigations' = b.navigations
  /\ navigationId' = b.navigationId
  /\ last' = [op |-> op, nav |-> NavAfter(b), action |-> b.action,
              calls |-> b.calls, threw |-> b.threw,
              pre |-> [noSlot |-> Falsy(storeState.routerReducer),
                       navigationTriggeredByDispatch |->
                         navigationTriggeredByDispatch]]

\* the slot's URL, when the slot holds a state
SlotUrl(s) ==
  IF Falsy(s.routerReducer) \/ Falsy(s.routerReducer.state) THEN Undefined
  ELSE [url |-> s.routerReducer.state.url]

\* `pending` after a callback that is no host change of the slot: the calls
\* of navigateByUrl for the pending URL are counted until router.url is that
\* URL or the slot holds another URL
PendingAfter(b, newUrl) ==
  IF pending = Undefined THEN Undefined
  ELSE IF newUrl = pending.url \/ SlotUrl(b.state) # [url |-> pending.url]
  THEN Undefined
  ELSE [pending EXCEPT !.calls = @ + Count(b.calls, pending.url)]

Init ==
  /\ routerState = Undefined
  /\ storeState = [routerReducer |-> Undefined, rest |-> FALSE]
  /\ lastRoutesRecognized = Undefined
  /\ dispatchTriggeredByRouter = FALSE
  /\ navigationTriggeredByDispatch = FALSE
  /\ state = [routerReducer |-> Undefined, rest |-> FALSE]
  /\ url = InitialUrl
  /\ navigations = <<>>
  /\ navigationId = 0
  /\ current = Undefined
  /\ last = [op |-> "constructor", nav |-> Undefined, action |-> Undefined,
             calls |-> <<>>, threw |-> FALSE,
             pre |-> [noSlot |-> TRUE,
                      navigationTriggeredByDispatch |-> FALSE]]
  /\ pending = Undefined

\* a navigation the router is asked for from outside the bridge
Navigate(u) ==
  /\ Becomes(scheduleNavigation(Self, u, "router"), "navigate")
  /\ UNCHANGED <<url, current, pending>>

\* the router takes up a scheduled navigation whose URL is the current one:
\* no transition, no event
SkipNavigation ==
  /\ current = Undefined
  /\ navigations # <<>>
  /\ Head(navigations).url = url
  /\ Becomes([Self EXCEPT !.navigations = Tail(@)], "skip")
  /\ UNCHANGED <<url, current, pending>>

\* the router takes up a scheduled navigation and emits RoutesRecognized
Recognize ==
  /\ current = Undefined
  /\ navigations # <<>>
  /\ Head(navigations).url # url
  /\ LET nav == Head(navigations)
         e == [kind |-> "RoutesRecognized", id |-> nav.id, url |-> nav.url,
               urlAfterRedirects |-> Redirect(nav.url)]
         b == routerEvents([Self EXCEPT !.navigations = Tail(@)], e, "ok")
     IN  /\ Becomes(b, "recognized")
         /\ current' = [id |-> nav.id, url |-> nav.url, origin |-> nav.origin,
                        phase |-> "recognized", before |-> Undefined,
                        sent |-> IF b.action = Undefined THEN <<>>
                                 ELSE <<b.action.type>>]
  /\ UNCHANGED <<url, pending>>

\* the router calls the beforePreactivation hook
Hook(mode) ==
  /\ current # Undefined
  /\ current.phase = "recognized"
  /\ LET b == beforePreactivation(Self, Snapshot(current), mode)
     IN  /\ Becomes(b, "hook")
         /\ current' = [NavAfter(b) EXCEPT
                          !.phase = CASE hookReturn(b) = "of(true)" -> "hooked"
                                      [] hookReturn(b) = "throws" -> "failing"
                                      [] OTHER -> "blocked",
                          !.before = state]
         /\ pending' = PendingAfter(b, url)
  /\ UNCHANGED url

\* the navigation succeeds: router.url changes, NavigationEnd is emitted
Activate ==
  /\ current # Undefined
  /\ current.phase = "hooked"
  /\ url' = Redirect(current.url)
  /\ LET b == routerEvents(Self, [kind |-> "NavigationEnd",
                                  id |-> current.id], "ok")
     IN  /\ Becomes(b, "end")
         /\ pending' = PendingAfter(b, url')
  /\ current' = Undefined

\* a guard rejects the navigation, or the hook did not let it proceed (the
\* doc comment: a throwing reducer cancels the navigation): NavigationCancel
\* is emitted
Cancel(mode) ==
  /\ current # Undefined
  /\ current.phase \in {"hooked", "blocked", "failing"}
  /\ LET b == routerEvents(Self, [kind |-> "NavigationCancel",
                                  id |-> current.id], mode)
     IN  /\ Becomes(b, "cancel")
         /\ pending' = PendingAfter(b, url)
  /\ current' = Undefined
  /\ UNCHANGED url

\* the navigation fails (a resolver throws, or the hook threw):
\* NavigationError is emitted
Error(mode) ==
  /\ current # Undefined
  /\ current.phase \in {"hooked", "failing"}
  /\ LET b == routerEvents(Self, [kind |-> "NavigationError",
                                  id |-> current.id], mode)
     IN  /\ Becomes(b, "error")
         /\ pending' = PendingAfter(b, url)
  /\ current' = Undefined
  /\ UNCHANGED url

\* the actions the host dispatches into the store
HostActions ==
  {[type |-> "HOST_TOUCH"], [type |-> "HOST_RESET"]}
    \cup {[type |-> "HOST_SET_URL", url |-> u] : u \in CanonUrls}

\* the host dispatches an action of its own.  A slot whose URL was the
\* router's and is changed to another URL starts a pending change
Host(a) ==
  /\ LET b == storeDispatch(Self, a, "ok")
     IN  /\ Becomes(b, a.type)
         /\ pending' =
              IF a.type = "HOST_SET_URL"
              THEN IF SlotUrl(state) = [url |-> url] /\ a.url # url
                   THEN [url |-> a.url, calls |-> Count(b.calls, a.url)]
                   ELSE Undefined
              ELSE PendingAfter(b, url)
  /\ UNCHANGED <<url, current>>

Next ==
  \/ \E u \in Urls : Navigate(u)
  \/ SkipNavigation
  \/ Recognize
  \/ \E mode \in Modes : Hook(mode)
  \/ Activate
  \/ \E mode \in Modes : Cancel(mode)
  \/ \E mode \in Modes : Error(mode)
  \/ \E a \in HostActions : Host(a)

Spec == Init /\ [][Next]_vars

\* ---- the properties ----

\* the last callback dispatched an action of the bridge
Dispatched == last.action # Undefined

\* the last callback dispatched, the store took the action and emitted the
\* state the reducer made of it
Emitted ==
  /\ Dispatched
  /\ storeState = state
  /\ ~Falsy(state.routerReducer)
  /\ state.routerReducer.state = last.action.payload.routerState
  /\ state.routerReducer.navigationId = last.action.payload.event.id

\* C1 (P1): a store state emitted by the bridge's own dispatch, delivered to
\* the store listener while dispatchRouterAction runs, never makes the
\* listener call navigateByUrl, whatever the slot's and the router's URL are.
NoEchoNavigation == Dispatched => last.calls = <<>>

\* C1's case: the bridge's own emission carried a slot URL that is not the
\* router's URL
EchoWithDifferingUrl ==
  /\ Emitted
  /\ ~Falsy(state.routerReducer.state)
  /\ state.routerReducer.state.url # url

\* C2 (P2): the hook of a navigation the store listener asked for dispatches
\* no ROUTER_NAVIGATION.  Stated for the hooks that find a slot in the store.
StoreDrivenHookSilent ==
  (last.op = "hook" /\ last.nav.origin = "store" /\ ~last.pre.noSlot)
    => ~Dispatched

\* C3: the hook of a navigation the bridge did not ask for dispatches
\* ROUTER_NAVIGATION, after any earlier events.  Stated for the hooks that
\* run right after their RoutesRecognized event.
RouterDrivenHookDispatches ==
  [][(last.op = "recognized" /\ last'.op = "hook"
        /\ current.origin = "router")
       => (last'.action # Undefined
             /\ last'.action.type = ROUTER_NAVIGATION)]_vars

\* the types of the two terminal actions
Terminal == {ROUTER_CANCEL, ROUTER_ERROR}

\* C4 (P4) as claimed: at most one of ROUTER_NAVIGATION, ROUTER_CANCEL and
\* ROUTER_ERROR is dispatched for a navigation id.
AtMostOneActionPerNavigation ==
  last.nav # Undefined => Len(last.nav.sent) <= 1

\* C4 as amended: every action the bridge dispatches carries the id of the
\* navigation in flight; for one id at most one ROUTER_NAVIGATION and at
\* most one of ROUTER_CANCEL and ROUTER_ERROR are dispatched, the
\* ROUTER_NAVIGATION first; a NavigationCancel event dispatches ROUTER_CANCEL
\* and a NavigationError event ROUTER_ERROR.
OneCommitOneTerminalPerNavigation ==
  /\ Dispatched =>
       /\ last.nav # Undefined
       /\ last.action.payload.event.id = last.nav.id
  /\ last.nav # Undefined =>
       \/ last.nav.sent = <<>>
       \/ last.nav.sent = <<ROUTER_NAVIGATION>>
       \/ \E t \in Terminal :
            last.nav.sent \in {<<t>>, <<ROUTER_NAVIGATION, t>>}
  /\ last.op = "cancel" => (Dispatched /\ last.action.type = ROUTER_CANCEL)
  /\ last.op = "error" => (Dispatched /\ last.action.type = ROUTER_ERROR)

\* C4's case: a navigation was recognized, its hook dispatched
\* ROUTER_NAVIGATION and a guard then cancelled it
CommittedThenCancelled ==
  /\ last.op = "cancel"
  /\ last.nav.sent = <<ROUTER_NAVIGATION, ROUTER_CANCEL>>

\* C5: the storeState in the payload of ROUTER_CANCEL and ROUTER_ERROR is the
\* store state from before the navigation attempt, that is from before the
\* attempt's hook ran and its ROUTER_NAVIGATION reached the store.
RollbackCarriesStateBefore ==
  (last.op \in {"cancel", "error"} /\ Dispatched)
    => last.action.payload.storeState = last.nav.before

\* C6 (P5): when dispatchRouterAction has returned, normally or by an
\* exception of store.dispatch, both guards are false.
GuardsClearedAfterDispatch ==
  Dispatched =>
    (~dispatchTriggeredByRouter /\ ~navigationTriggeredByDispatch)

\* C6's case: store.dispatch threw in a callback that was entered with
\* navigationTriggeredByDispatch set
DispatchThrewWithGuardSet ==
  /\ Dispatched
  /\ last.threw
  /\ last.pre.navigationTriggeredByDispatch

\* C7 (P3): with no slot in the store state the hook dispatches
\* ROUTER_NAVIGATION whatever navigationTriggeredByDispatch is, and the
\* action's event has the id, url and urlAfterRedirects of the latest
\* RoutesRecognized event, the one of the navigation in flight.
FirstNavigationRecorded ==
  (last.op = "hook" /\ last.pre.noSlot) =>
    /\ Dispatched
    /\ last.action.type = ROUTER_NAVIGATION
    /\ last.action.payload.event.id = last.nav.id
    /\ last.action.payload.event.url = last.nav.url
    /\ last.action.payload.event.urlAfterRedirects = Redirect(last.nav.url)

\* C7's case: the hook ran with no slot and with
\* navigationTriggeredByDispatch set, for a navigation that was redirected
HookWithoutSlotGuardSet ==
  /\ last.op = "hook"
  /\ last.pre.noSlot
  /\ last.pre.navigationTriggeredByDispatch
  /\ Redirect(last.nav.url) # last.nav.url

\* C8 (Scenario B): from a host change of the slot's URL, away from the
\* router's URL, until router.url is the new URL, the bridge calls
\* navigateByUrl for it exactly once, whatever else the store emits.
NavigateOncePerChange ==
  pending # Undefined => pending.calls = 1

\* no bridge callback is running and the router has no navigation scheduled
\* or in flight
Quiescent == current = Undefined /\ navigations = <<>>

\* C9: in a quiescent state the URL of the slot's state, if the slot holds
\* one, is router.url.
SlotAgreesWhenQuiescent ==
  (Quiescent /\ SlotUrl(state) # Undefined) => SlotUrl(state).url = url

\* C10: after a ROUTER_CANCEL or ROUTER_ERROR the bridge does not ask for the
\* failed navigation again; stated for the claim's own case, a store action
\* that leaves the slot untouched and comes right after the failure.
NoRetryAfterFailure ==
  [][(last.op \in {"cancel", "error"} /\ last'.op = "HOST_TOUCH")
       => last'.calls = <<>>]_vars

\* C11 as claimed: every invocation of the hook ends by returning of(true) to
\* the router, also when store.dispatch throws.
HookAlwaysProceeds ==
  last.op = "hook" => current.phase = "hooked"

\* C11 as amended: the hook returns of(true) whenever store.dispatch does not
\* throw, whether or not it dispatched; when store.dispatch throws, the
\* exception leaves the hook after the cleanup and the navigation fails.
HookProceedsUnlessDispatchThrows ==
  last.op = "hook" =>
    IF last.threw THEN Dispatched /\ current.phase = "failing"
    ELSE current.phase = "hooked"

\* C11's case: store.dispatch threw inside the hook
HookDispatchThrew == last.op = "hook" /\ Dispatched /\ last.threw

\* C12: RoutesRecognized dispatches nothing and sets lastRoutesRecognized;
\* NavigationCancel dispatches one action of type "ROUTER_CANCEL";
\* NavigationError one of type "ROUTER_ERROR"; a commit has type
\* "ROUTER_NAVIGATION"; no other event dispatches.
EventToActionMapping ==
  /\ last.op = "recognized" =>
       (~Dispatched /\ lastRoutesRecognized.id = current.id)
  /\ last.op = "cancel" =>
       (Dispatched /\ last.action.type = "ROUTER_CANCEL")
  /\ last.op = "error" =>
       (Dispatched /\ last.action.type = "ROUTER_ERROR")
  /\ (last.op = "hook" /\ Dispatched) =>
       last.action.type = "ROUTER_NAVIGATION"
  /\ last.op = "end" => ~Dispatched

\* C13: routerReducer turns ROUTER_NAVIGATION, ROUTER_CANCEL and ROUTER_ERROR
\* into {state: payload.routerState, navigationId: payload.event.id} and
\* returns the slot it was given for every other action type.
ReducerChangesSlotForBridgeActionsOnly ==
  /\ [](Dispatched /\ ~last.threw =>
          state.routerReducer =
            [state |-> last.action.payload.routerState,
             navigationId |-> last.action.payload.event.id])
  /\ [][last'.op = "HOST_TOUCH" =>
          state'.routerReducer = state.routerReducer]_vars

\* C13's case: an action of another type reached the reducer while the slot
\* held the state of an earlier bridge action
ForeignActionOnFilledSlot ==
  /\ last.op = "HOST_TOUCH"
  /\ ~Falsy(state.routerReducer)
  /\ state.routerReducer.navigationId > 0

RollbackCarriesOwnSnapshot ==
  /\ last.op = "hook" => routerState = serialize(Snapshot(current))
  /\ (last.op \in {"cancel", "error"} /\ Dispatched) =>
       /\ last.action.payload.routerState = routerState
       /\ last.action.payload.routerState = serialize(Snapshot(last.nav))

\* C15's case: a navigation whose hook dispatched nothing was cancelled
SuppressedThenCancelled ==
  /\ last.op = "cancel"
  /\ last.nav.origin = "store"
  /\ last.nav.sent = <<ROUTER_CANCEL>>

\* the callbacks that are a store emission caused by the host
HostOps == {a.type : a \in HostActions}

NoNavigateDuringRouterNavigation ==
  (/\ last.op = "HOST_TOUCH"
   /\ current # Undefined
   /\ current.origin = "router"
   /\ current.phase = "hooked"
   /\ current.sent = <<ROUTER_NAVIGATION>>)
    => last.calls = <<>>

\* the steps the router and the bridge take by themselves, with no new
\* request, guard decision or resolver failure and no host action: taking up
\* a scheduled navigation, its hook, its activation, and the failure of a
\* navigation whose hook threw; each is told by the callback recorded in last
InternalStep ==
  \/ last'.op \in {"skip", "recognized", "hook", "end"}
  \/ (last'.op \in {"cancel", "error"} /\ current.phase = "failing")

\* the work the router has left: the scheduled navigations and the phases
\* the navigation in flight still has to pass
Work ==
  4 * Len(navigations)
    + (CASE current = Undefined -> 0
         [] current # Undefined /\ current.phase = "recognized" -> 3
         [] current # Undefined /\ current.phase = "failing" -> 2
         [] OTHER -> 1)

\* C18: no infinite feedback.  Every step taken without an external stimulus
\* uses up work the router has left and calls no navigateByUrl, so after the
\* last stimulus the bridge runs at most Work more callbacks, each with at
\* most one dispatch, and what is left when the work is used up is the
\* quiescent state, which only a new stimulus leaves.
NoInfiniteFeedback ==
  /\ [][InternalStep => (Work' < Work /\ last'.calls = <<>>)]_vars
  /\ [](Work = 0 <=> Quiescent)

\* C18's case: a navigation committed a slot URL that was not the router's,
\* ran to its end with no further navigation asked for, and left the system
\* quiescent with slot and router in agreement
RoundTripSettled ==
  /\ last.op = "end"
  /\ last.nav.sent = <<ROUTER_NAVIGATION>>
  /\ last.nav.id > 1
  /\ Quiescent
  /\ SlotUrl(state) = [url |-> url]

\* C19: once the store has taken the ROUTER_NAVIGATION the hook of navigation
\* N dispatched, the slot holds N as navigationId and the snapshot that hook
\* captured as state.  A hook whose dispatch is suppressed leaves the store
\* state, navigationId included, as it was, lets the navigation proceed, and
\* the navigation's end changes router.url and again not the store.
HookCommitsNavigation ==
  /\ []((last.op = "hook" /\ Dispatched /\ ~last.threw) =>
          /\ last.action.type = ROUTER_NAVIGATION
          /\ state.routerReducer =
               [state |-> serialize(Snapshot(current)),
                navigationId |-> current.id])
  /\ [][(last'.op = "hook" /\ last'.action = Undefined) =>
          (state' = state /\ current'.phase = "hooked")]_vars
  /\ [][last'.op = "end" =>
          (last'.action = Undefined /\ state' = state
             /\ url' = Redirect(current.url))]_vars

\* C19's case: the hook of a later navigation committed over a slot that
\* held another navigation's id
LaterNavigationCommitted ==
  /\ last.op = "hook"
  /\ Emitted
  /\ current.id > 1
  /\ ~Falsy(current.before.routerReducer)
  /\ current.before.routerReducer.navigationId \notin {0, current.id}

\* C20: dispatchTriggeredByRouter is true only while dispatchRouterAction
\* runs, so no callback leaves it true and an emission from a host dispatch
\* finds it false; navigationTriggeredByDispatch turns true only in the store
\* listener, at an emission that is not the bridge's own, whose slot holds a
\* state with a URL that is not router.url, together with the navigateByUrl
\* call for that URL -- and at every such emission it is true afterwards.
GuardsSetOnlyByTheirOwners ==
  /\ [](~dispatchTriggeredByRouter)
  /\ [][(~navigationTriggeredByDispatch /\ navigationTriggeredByDispatch') =>
          /\ last'.op \in HostOps
          /\ last'.action = Undefined
          /\ SlotUrl(state') # Undefined
          /\ SlotUrl(state').url # url
          /\ last'.calls = <<SlotUrl(state').url>>]_vars
  /\ [][(/\ last'.op \in HostOps
         /\ SlotUrl(state') # Undefined
         /\ SlotUrl(state').url # url) =>
          navigationTriggeredByDispatch']_vars

\* C20's case: an emission from a host dispatch turned
\* navigationTriggeredByDispatch true
GuardSetByListener ==
  /\ last.op \in HostOps
  /\ ~last.pre.navigationTriggeredByDispatch
  /\ navigationTriggeredByDispatch
  /\ last.calls # <<>>

====
